---- MODULE Spec2Model ----
(***************************************************************************)
(* Model of the Compute Engine helper library                              *)
(*   demo-suite/lib/google_cloud/gce.py            (GceProject, resources) *)
(*   demo-suite/lib/google_cloud/gce_appengine.py  (GceAppEngine)          *)
(*                                                                         *)
(* Python values are modelled as follows.  A string attribute is a TLA+    *)
(* string, with None the value Python's None.  A list attribute is a       *)
(* sequence; None and [] are both the empty sequence (the code only tests  *)
(* list attributes for truth).  A dict is a function over its keys.  A     *)
(* formatted URL is a record of its path segments.  An attribute that was  *)
(* never assigned is Absent, and reading it raises AttributeError.  Every  *)
(* operator that models code that may raise returns a record whose exc     *)
(* field names the exception ("none" when it returned).                    *)
(***************************************************************************)
EXTENDS Integers, Sequences, FiniteSets, TLC

VARIABLES
  gce_project,  \* the GceProject the caller constructed
  pc,           \* "idle", or "done" after an operation ran to its end
  op,           \* the operation that ran last
  input,        \* the arguments it was called with
  ret,          \* what it returned or raised
  events,       \* transport executes, log lines and callbacks, in order
  response      \* the request handler's webapp2 response

vars == <<gce_project, pc, op, input, ret, events, response>>

----------------------------------------------------------------------------
(* Python values *)

None == "<None>"
Absent == "<absent>"
NoExc == "none"

\* '%s' % x
Fmt(x) == IF x = None THEN "None" ELSE x

\* `not x` for a string-or-None and for a list-or-None
NotStr(x) == x = None \/ x = ""
NotList(x) == x = << >>

Ok(v) == [exc |-> NoExc, val |-> v]
Raise(e) == [exc |-> e, val |-> None]

\* d.get(k) is truthy, for a string value and for a list value
GetStr(d, k) == k \in DOMAIN d /\ ~NotStr(d[k])
GetList(d, k) == k \in DOMAIN d /\ ~NotList(d[k])

\* F(e), with e evaluated once and F applied to its value
Bind(e, F(_)) == CHOOSE y \in {F(x) : x \in {e}} : TRUE

\* u.split('/')[-1] of a formatted URL
LastSegment(u) == u.name

----------------------------------------------------------------------------
(* Module constants and the settings file *)

API == "compute"
GCE_URL == <<"https://www.googleapis.com", API>>
GOOGLE_PROJECT == "google"

Settings ==
  [project |-> "settings-project",
   compute |->
     [api_version |-> "v1beta14",
      zone |-> "settings-zone",
      network |-> "settings-network",
      machine_type |-> "settings-machine-type",
      image |-> "settings-image",
      access_configs |-> <<"settings-access-config">>,
      firewall |-> [sourceRanges |-> <<"0.0.0.0/0">>,
                    allowed |-> <<"settings-allowed">>]]]

\* GceProject.__init__
GceProject(project_id, zone_name) ==
  [settings |-> Settings,
   gce_url |-> Append(GCE_URL, Settings.compute.api_version),
   project_id |-> IF NotStr(project_id) THEN Settings.project ELSE project_id,
   zone_name |-> IF NotStr(zone_name) THEN Settings.compute.zone
                 ELSE zone_name]

Url(base, project, collection, name) ==
  [base |-> base, project |-> Fmt(project), collection |-> collection,
   name |-> Fmt(name)]

----------------------------------------------------------------------------
(* MachineType, Zone, Network: a name and, once attached, the project *)

MachineType(name) == [class |-> "MachineType", name |-> name,
                      has_gce_project |-> FALSE]
Zone(name) == [class |-> "Zone", name |-> name, has_gce_project |-> FALSE]
Network(name) == [class |-> "Network", name |-> name,
                  has_gce_project |-> FALSE]

Attach(r) == [r EXCEPT !.has_gce_project = TRUE]

MachineTypeUrl(gp, self) ==
  IF ~self.has_gce_project THEN Raise("AttributeError")
  ELSE Ok(Url(gp.gce_url, gp.project_id, "machineTypes", self.name))

ZoneUrl(gp, self) ==
  IF ~self.has_gce_project THEN Raise("AttributeError")
  ELSE Ok(Url(gp.gce_url, gp.project_id, "zones", self.name))

NetworkUrl(gp, self) ==
  IF ~self.has_gce_project THEN Raise("AttributeError")
  ELSE Ok(Url(gp.gce_url, gp.project_id, "networks", self.name))

\* set_defaults of MachineType, Zone and Network: key is the settings key
NameSetDefaults(gp, self, key) ==
  IF ~NotStr(self.name) THEN Ok(self)
  ELSE IF ~self.has_gce_project THEN [exc |-> "AttributeError", val |-> self]
  ELSE Ok([self EXCEPT !.name = gp.settings.compute[key]])

MachineTypeSetDefaults(gp, self) == NameSetDefaults(gp, self, "machine_type")
ZoneSetDefaults(gp, self) == NameSetDefaults(gp, self, "zone")
NetworkSetDefaults(gp, self) == NameSetDefaults(gp, self, "network")

----------------------------------------------------------------------------
(* Image *)

\* the value of a property or call that returns None where a dict is expected
NoneDict == ("<None>" :> TRUE)
EmptyDict == << >>

\* {k: v} when cond, {} otherwise
Entry(cond, k, v) == IF cond THEN (k :> v) ELSE EmptyDict

Image(name, project, description, source_type, preferred_kernel, raw_disk) ==
  [class |-> "Image", name |-> name, project |-> project,
   description |-> description, source_type |-> source_type,
   preferred_kernel |-> preferred_kernel, raw_disk |-> raw_disk,
   has_gce_project |-> FALSE]

\* Image(name): the other arguments at their defaults
ImageNamed(name) == Image(name, GOOGLE_PROJECT, None, None, None, None)

ImageUrl(gp, self) ==
  IF ~self.has_gce_project THEN Raise("AttributeError")
  ELSE Ok(Url(gp.gce_url, self.project, "images", self.name))

\* the dict the json property builds in its local variable image
ImageJsonDict(self) ==
  ("name" :> self.name)
  @@ Entry(~NotStr(self.description), "description", self.description)
  @@ Entry(~NotStr(self.source_type), "sourceType", self.source_type)
  @@ Entry(~NotStr(self.preferred_kernel), "preferredKernel",
           self.preferred_kernel)
  @@ Entry(~NotStr(self.raw_disk), "rawDisk", self.raw_disk)

\* the json property has no return statement: its value is None
ImageJson(gp, self) == Ok(NoneDict)

ImageFromJson(self, j) ==
  IF j = NoneDict THEN [exc |-> "TypeError", val |-> self]
  ELSE IF "name" \notin DOMAIN j THEN [exc |-> "KeyError", val |-> self]
  ELSE Ok([self EXCEPT
        !.name = j.name,
        !.description = IF GetStr(j, "description") THEN j.description ELSE @,
        !.source_type = IF GetStr(j, "sourceType") THEN j.sourceType ELSE @,
        !.preferred_kernel =
            IF GetStr(j, "preferredKernel") THEN j.preferredKernel ELSE @,
        !.raw_disk = IF GetStr(j, "rawDisk") THEN j.rawDisk ELSE @])

ImageSetDefaults(gp, self) ==
  IF ~NotStr(self.name) THEN Ok(self)
  ELSE IF ~self.has_gce_project THEN [exc |-> "AttributeError", val |-> self]
  ELSE Ok([self EXCEPT !.name = gp.settings.compute.image])

----------------------------------------------------------------------------
(* Instance *)

Instance(name, zone_name, description, tags, image_name, image_project, machine_type_name, network_interfaces, disks, metadata, service_accounts) ==
  [class |-> "Instance", name |-> name, zone |-> Zone(zone_name),
   description |-> description, tags |-> tags,
   image |-> Image(image_name, image_project, None, None, None, None),
   machine_type |-> MachineType(machine_type_name),
   network_interfaces |-> network_interfaces, disks |-> disks,
   metadata |-> metadata, service_accounts |-> service_accounts,
   kernel |-> Absent, status |-> Absent, status_message |-> Absent,
   has_gce_project |-> FALSE]

InstanceJson(gp, self) ==
  LET image == ImageUrl(gp, self.image)
      machineType == MachineTypeUrl(gp, self.machine_type)
  IN IF image.exc # NoExc THEN Raise(image.exc)
     ELSE IF machineType.exc # NoExc THEN Raise(machineType.exc)
     ELSE Ok(
       [name |-> self.name, image |-> image.val,
        machineType |-> machineType.val,
        networkInterfaces |-> self.network_interfaces]
       @@ Entry(~NotStr(self.description), "description", self.description)
       @@ Entry(~NotList(self.tags), "tags", [items |-> self.tags])
       @@ Entry(~NotList(self.disks), "disks", self.disks)
       @@ Entry(~NotList(self.metadata), "metadata", [items |-> self.metadata])
       @@ Entry(~NotList(self.service_accounts), "serviceAccounts",
                self.service_accounts))

InstanceRequiredKeys ==
  <<"name", "zone", "image", "machineType", "networkInterfaces">>

InstanceFromJson(self, j) ==
  IF j = NoneDict THEN [exc |-> "TypeError", val |-> self]
  ELSE IF \E i \in 1..Len(InstanceRequiredKeys) :
            InstanceRequiredKeys[i] \notin DOMAIN j
  THEN [exc |-> "KeyError", val |-> self]
  ELSE Ok([self EXCEPT
        !.name = j.name,
        !.zone = Zone(LastSegment(j.zone)),
        !.image = ImageNamed(LastSegment(j.image)),
        !.machine_type = MachineType(LastSegment(j.machineType)),
        !.network_interfaces = j.networkInterfaces,
        !.description = IF GetStr(j, "description") THEN j.description ELSE @,
        !.tags = IF "tags" \in DOMAIN j /\ GetList(j.tags, "items")
                 THEN j.tags.items ELSE @,
        !.kernel = IF GetStr(j, "kernel") THEN j.kernel ELSE @,
        !.status = IF GetStr(j, "status") THEN j.status ELSE @,
        !.status_message =
            IF GetStr(j, "statusMessage") THEN j.statusMessage ELSE @,
        !.disks = IF GetList(j, "disks") THEN j.disks ELSE @,
        !.metadata = IF "metadata" \in DOMAIN j /\ GetList(j.metadata, "items")
                     THEN j.metadata.items ELSE @,
        !.service_accounts =
            IF GetList(j, "serviceAccounts") THEN j.serviceAccounts ELSE @])

\* the network interface set_defaults builds from the settings
DefaultNetworkInterfaces(gp) ==
  <<[network |->
       NetworkUrl(gp, Attach(Network(gp.settings.compute.network))).val,
     accessConfigs |-> gp.settings.compute.access_configs]>>

\* set_defaults building the network interfaces whatever the caller gave
InstanceSetDefaultsOverwrites(gp, self) ==
  IF ~self.has_gce_project THEN [exc |-> "AttributeError", val |-> self]
  ELSE Ok([self EXCEPT
        !.zone = ZoneSetDefaults(gp, Attach(@)).val,
        !.image = ImageSetDefaults(gp, Attach(@)).val,
        !.machine_type = MachineTypeSetDefaults(gp, Attach(@)).val,
        !.network_interfaces = DefaultNetworkInterfaces(gp)])

InstanceSetDefaults(gp, self) ==
  IF ~self.has_gce_project THEN [exc |-> "AttributeError", val |-> self]
  ELSE Ok([self EXCEPT
        !.zone = ZoneSetDefaults(gp, Attach(@)).val,
        !.image = ImageSetDefaults(gp, Attach(@)).val,
        !.machine_type = MachineTypeSetDefaults(gp, Attach(@)).val,
        !.network_interfaces =
            IF NotList(@) THEN DefaultNetworkInterfaces(gp) ELSE @])

----------------------------------------------------------------------------
(* Firewall *)

\* a plain string where an object is expected
StrObject(value) == [class |-> "str", value |-> value]

Firewall(name, description, network_name, source_ranges, source_tags, target_tags, allowed) ==
  [class |-> "Firewall", name |-> name, description |-> description,
   network |-> Network(network_name), source_ranges |-> source_ranges,
   source_tags |-> source_tags, target_tags |-> target_tags,
   allowed |-> allowed, has_gce_project |-> FALSE]

FirewallJson(gp, self) ==
  LET network == IF self.network.class = "str" THEN Raise("AttributeError")
                 ELSE NetworkUrl(gp, self.network)
  IN IF network.exc # NoExc THEN Raise(network.exc)
     ELSE Ok(
       [name |-> self.name, network |-> network.val, allowed |-> self.allowed]
       @@ Entry(~NotList(self.source_ranges), "sourceRanges",
                self.source_ranges)
       @@ Entry(~NotList(self.source_tags), "sourceTags", self.source_tags)
       @@ Entry(~NotList(self.target_tags), "targetTags", self.target_tags))

FirewallRequiredKeys == <<"name", "network", "allowed">>

FirewallFromJson(self, j) ==
  IF j = NoneDict THEN [exc |-> "TypeError", val |-> self]
  ELSE IF \E i \in 1..Len(FirewallRequiredKeys) :
            FirewallRequiredKeys[i] \notin DOMAIN j
  THEN [exc |-> "KeyError", val |-> self]
  ELSE Ok([self EXCEPT
        !.name = j.name,
        !.network = StrObject(j.network),
        !.allowed = j.allowed,
        !.source_ranges =
            IF GetList(j, "sourceRanges") THEN j.sourceRanges ELSE @,
        \* sourceTags, then targetTags, are both assigned to source_tags
        !.source_tags =
            IF GetList(j, "targetTags") THEN j.targetTags
            ELSE IF GetList(j, "sourceTags") THEN j.sourceTags ELSE @])

FirewallSetDefaults(gp, self) ==
  IF self.network.class = "str" THEN [exc |-> "AttributeError", val |-> self]
  ELSE
    LET network == NetworkSetDefaults(gp, self.network)
        s1 == [self EXCEPT !.network = network.val]
        needRanges == NotList(s1.source_ranges) /\ NotList(s1.source_tags)
        s2 == IF needRanges
              THEN [s1 EXCEPT !.source_ranges =
                                 gp.settings.compute.firewall.sourceRanges]
              ELSE s1
        needAllowed == NotList(s2.allowed)
    IN IF network.exc # NoExc THEN [exc |-> network.exc, val |-> s1]
       ELSE IF needRanges /\ ~self.has_gce_project
       THEN [exc |-> "AttributeError", val |-> s1]
       ELSE IF needAllowed /\ ~self.has_gce_project
       THEN [exc |-> "AttributeError", val |-> s2]
       ELSE Ok(IF needAllowed
               THEN [s2 EXCEPT !.allowed = gp.settings.compute.firewall.allowed]
               ELSE s2)

----------------------------------------------------------------------------
(* Dispatch on the class of a resource *)

Json(gp, r) ==
  CASE r.class = "Instance" -> InstanceJson(gp, r)
    [] r.class = "Firewall" -> FirewallJson(gp, r)
    [] r.class = "Image" -> ImageJson(gp, r)
    [] OTHER -> Raise("AttributeError")

FromJson(r, j) ==
  CASE r.class = "Instance" -> InstanceFromJson(r, j)
    [] r.class = "Firewall" -> FirewallFromJson(r, j)
    [] r.class = "Image" -> ImageFromJson(r, j)
    [] OTHER -> [exc |-> "AttributeError", val |-> r]

SetDefaults(gp, r) ==
  CASE r.class = "Instance" -> InstanceSetDefaults(gp, r)
    [] r.class = "Firewall" -> FirewallSetDefaults(gp, r)
    [] r.class = "Image" -> ImageSetDefaults(gp, r)
    [] r.class = "MachineType" -> MachineTypeSetDefaults(gp, r)
    [] r.class = "Zone" -> ZoneSetDefaults(gp, r)
    [] r.class = "Network" -> NetworkSetDefaults(gp, r)

\* __scope__
Scope(r) == IF r.class = "Instance" THEN "zonal" ELSE "global"

\* service_resource(): the collection of the discovery service
ServiceResource(r) ==
  IF ~r.has_gce_project THEN Raise("AttributeError")
  ELSE Ok(CASE r.class = "Instance" -> "instances"
            [] r.class = "Firewall" -> "firewalls"
            [] r.class = "Image" -> "images"
            [] r.class = "MachineType" -> "machineTypes"
            [] r.class = "Zone" -> "zones"
            [] r.class = "Network" -> "networks")

\* resource_class(): every argument at its default
Fresh(class) ==
  CASE class = "Instance" ->
         Instance(None, None, None, << >>, None, GOOGLE_PROJECT, None,
                  << >>, << >>, << >>, << >>)
    [] class = "Firewall" ->
         Firewall(None, None, None, << >>, << >>, << >>, << >>)
    [] class = "Image" -> ImageNamed(None)

----------------------------------------------------------------------------
(* The transport: requests, what the provider answers, request.execute() *)

NoRequest == [method |-> "none"]

HttpRequest(method, collection, params) ==
  [method |-> method, collection |-> collection, params |-> params]

\* http.BatchHttpRequest() after batch.add(request, callback) for each request
BatchHttpRequest(requests) == [method |-> "batch", requests |-> requests]

\* What the provider and the client library do with one execute() call
Answer(result) ==
  [kind |-> "ok", result |-> result, status |-> 200, reason |-> "OK",
   failed |-> {}]
\* a batch answered as a whole, with the sub-requests in failed reporting an
\* exception to their callback
BatchAnswer(failed) ==
  [kind |-> "ok", result |-> NoneDict, status |-> 200, reason |-> "OK",
   failed |-> failed]
HttpError(status, reason) ==
  [kind |-> "HttpError", result |-> NoneDict, status |-> status,
   reason |-> reason, failed |-> {}]
HttpLib2Error ==
  [kind |-> "HttpLib2Error", result |-> NoneDict, status |-> 0,
   reason |-> None, failed |-> {}]
AccessTokenRefreshError ==
  [kind |-> "AccessTokenRefreshError", result |-> NoneDict, status |-> 0,
   reason |-> None, failed |-> {}]

ExecuteEvent(request) == [type |-> "execute", request |-> request]
LogEvent(what) == [type |-> "logging.error", what |-> what]
CallbackEvent(request_id) == [type |-> "callback", request_id |-> request_id]
CallEvent(method, args) == [type |-> "call", method |-> method, args |-> args]

\* GceProject._batch_response
BatchResponse(request_id, exception) ==
  <<CallbackEvent(request_id)>>
  \o (IF exception # None THEN <<LogEvent(exception)>> ELSE << >>)

RECURSIVE BatchCallbacks(_, _, _)
\* the library calls the callback of sub-request i, i+1, ..., n in turn
BatchCallbacks(i, n, failed) ==
  IF i > n THEN << >>
  ELSE BatchResponse(i, IF i \in failed THEN "HttpError" ELSE None)
       \o BatchCallbacks(i + 1, n, failed)

\* request.execute(): the events of the call and the library's outcome
Execute(request, answer) ==
  [kind |-> answer.kind, result |-> answer.result, status |-> answer.status,
   reason |-> answer.reason,
   events |->
     <<ExecuteEvent(request)>>
     \o (IF request.method = "batch" /\ answer.kind = "ok"
         THEN BatchCallbacks(1, Len(request.requests), answer.failed)
         ELSE << >>)]

\* what a call did: none tells that the value it returned is None
Returned(val, ev) ==
  [exc |-> NoExc, msg |-> None, none |-> FALSE, val |-> val, events |-> ev]
ReturnedNone(ev) ==
  [exc |-> NoExc, msg |-> None, none |-> TRUE, val |-> NoneDict,
   events |-> ev]
Raised(exc, msg, ev) ==
  [exc |-> exc, msg |-> msg, none |-> TRUE, val |-> NoneDict, events |-> ev]

\* _run_request with the token failure raised as the generic failure
RunRequestTokenAsGce(request, answer) ==
  Bind(Execute(request, answer), LAMBDA e :
    IF e.kind = "ok"
    THEN (IF e.result = NoneDict THEN ReturnedNone(e.events)
          ELSE Returned(e.result, e.events))
    ELSE Raised("GceError", <<"Transport Error occurred">>,
                e.events \o <<LogEvent(e.kind)>>))

\* _run_request executing the request a second time when the first fails
RunRequestRetries(request, answer) ==
  Bind(Execute(request, answer), LAMBDA e :
    CASE e.kind = "ok" ->
           IF e.result = NoneDict THEN ReturnedNone(e.events)
           ELSE Returned(e.result, e.events)
      [] e.kind = "AccessTokenRefreshError" ->
           Raised("GceTokenError", <<"Access Token refresh error">>,
                  e.events \o e.events \o <<LogEvent(e.kind)>>)
      [] e.kind = "HttpError" ->
           Raised("GceError", <<"HttpError: ", e.status, e.reason>>,
                  e.events \o e.events \o <<LogEvent(e.kind)>>)
      [] OTHER ->
           Raised("GceError", <<"Transport Error occurred">>,
                  e.events \o e.events \o <<LogEvent(e.kind)>>))

\* GceProject._run_request
RunRequest(request, answer) ==
  Bind(Execute(request, answer), LAMBDA e :
    CASE e.kind = "ok" ->
           IF e.result = NoneDict THEN ReturnedNone(e.events)
           ELSE Returned(e.result, e.events)
      [] e.kind = "HttpError" ->
           Raised("GceError", <<"HttpError: ", e.status, e.reason>>,
                  e.events \o <<LogEvent(e.kind)>>)
      [] e.kind = "HttpLib2Error" ->
           Raised("GceError", <<"Transport Error occurred">>,
                  e.events \o <<LogEvent(e.kind)>>)
      [] e.kind = "AccessTokenRefreshError" ->
           Raised("GceTokenError", <<"Access Token refresh error">>,
                  e.events \o <<LogEvent(e.kind)>>))

----------------------------------------------------------------------------
(* GceProject: building requests *)

\* GceProject._list_request
ListRequest(gp, resource, zone_name, args) ==
  LET zone == IF NotStr(zone_name) THEN gp.zone_name ELSE zone_name
      params == Entry(Scope(resource) = "zonal", "zone", zone)
                @@ args @@ ("project" :> gp.project_id)
  IN Bind(ServiceResource(resource), LAMBDA service :
       IF service.exc # NoExc
       THEN [exc |-> service.exc, request |-> NoRequest]
       ELSE [exc |-> NoExc,
             request |-> HttpRequest("list", service.val, params)])

\* service_resource().list_next(previous_request, previous_response)
ListNext(previous_request, previous_response) ==
  IF "nextPageToken" \notin DOMAIN previous_response THEN NoRequest
  ELSE [previous_request EXCEPT !.params =
          ("pageToken" :> previous_response.nextPageToken) @@ @]

\* the parameters of an insert call: the body, and the zone of a zonal kind
InsertParams(gp, r, body) ==
  Entry(Scope(r) = "zonal", "zone", r.zone.name)
  @@ [project |-> gp.project_id, body |-> body]

\* _insert_request reading resource.json before it calls set_defaults
InsertRequestJsonFirst(gp, resource) ==
  Bind(Json(gp, resource), LAMBDA body :
    Bind(SetDefaults(gp, resource), LAMBDA d :
      IF body.exc # NoExc
      THEN [exc |-> body.exc, request |-> NoRequest, resource |-> resource]
      ELSE IF d.exc # NoExc
      THEN [exc |-> d.exc, request |-> NoRequest, resource |-> d.val]
      ELSE [exc |-> NoExc,
            request |-> HttpRequest("insert", ServiceResource(d.val).val,
                                    InsertParams(gp, d.val, body.val)),
            resource |-> d.val]))

\* GceProject._insert_request, the resource already attached to the project
InsertRequest(gp, resource) ==
  Bind(SetDefaults(gp, resource), LAMBDA d :
    IF d.exc # NoExc
    THEN [exc |-> d.exc, request |-> NoRequest, resource |-> d.val]
    ELSE Bind(Json(gp, d.val), LAMBDA body :
      IF body.exc # NoExc
      THEN [exc |-> body.exc, request |-> NoRequest, resource |-> d.val]
      ELSE [exc |-> NoExc,
            request |-> HttpRequest("insert", ServiceResource(d.val).val,
                                    InsertParams(gp, d.val, body.val)),
            resource |-> d.val]))

\* the parameters of a delete call: the name under the key of the kind, and
\* the zone of a zonal kind
DeleteParams(gp, r) ==
  Entry(Scope(r) = "zonal", "zone", r.zone.name)
  @@ Entry(r.class = "Firewall", "firewall", r.name)
  @@ Entry(r.class = "Image", "image", r.name)
  @@ Entry(r.class = "Instance", "instance", r.name)
  @@ ("project" :> gp.project_id)

\* GceProject._delete_request, the resource already attached to the project
DeleteRequest(gp, resource) ==
  Bind(SetDefaults(gp, resource), LAMBDA d :
    IF d.exc # NoExc
    THEN [exc |-> d.exc, request |-> NoRequest, resource |-> d.val]
    ELSE [exc |-> NoExc,
          request |-> HttpRequest("delete", ServiceResource(d.val).val,
                                  DeleteParams(gp, d.val)),
          resource |-> d.val])

----------------------------------------------------------------------------
(* GceProject: list, insert, bulk_insert, bulk_delete *)

\* the first exception among the results made, NoExc when there is none
FirstExc(made) ==
  LET bad == {i \in 1..Len(made) : made[i].exc # NoExc}
  IN IF bad = {} THEN NoExc
     ELSE made[CHOOSE i \in bad : \A k \in bad : i <= k].exc

\* for result in results.get('items', []): resource_class().from_json(result)
FromJsonAll(class, items) ==
  Bind([i \in 1..Len(items) |-> FromJson(Fresh(class), items[i])],
       LAMBDA made :
         IF FirstExc(made) = NoExc
         THEN [exc |-> NoExc, val |-> [i \in 1..Len(items) |-> made[i].val]]
         ELSE [exc |-> FirstExc(made), val |-> << >>])

\* _list never asking for a page after the first
NextPageNone(gp, resource, zone_name, args, results) == NoRequest

\* the request for the page after results
NextPage(gp, resource, zone_name, args, results) ==
  ListNext(ListRequest(gp, resource, zone_name, args).request, results)

RECURSIVE ListLoop(_, _, _, _, _, _, _, _)
\* the while loop of GceProject._list; answers are the provider's answers to
\* the executes still to come
ListLoop(gp, resource, zone_name, args, request, answers, resources, ev) ==
  IF request = NoRequest THEN Returned(resources, ev)
  ELSE Bind(RunRequest(request, Head(answers)), LAMBDA r :
    IF r.exc # NoExc THEN Raised(r.exc, r.msg, ev \o r.events)
    ELSE Bind(FromJsonAll(resource.class,
                          IF "items" \in DOMAIN r.val THEN r.val.items
                          ELSE << >>),
              LAMBDA new :
      IF new.exc # NoExc THEN Raised(new.exc, None, ev \o r.events)
      ELSE Bind([request |-> NextPage(gp, resource, zone_name, args, r.val),
                 answers |-> Tail(answers),
                 resources |-> resources \o new.val,
                 events |-> ev \o r.events],
                LAMBDA n :
        ListLoop(gp, resource, zone_name, args, n.request, n.answers,
                 n.resources, n.events))))

\* GceProject._list
List(gp, class, zone_name, args, answers) ==
  Bind(Attach(Fresh(class)), LAMBDA resource :
    Bind(ListRequest(gp, resource, zone_name, args), LAMBDA first :
      ListLoop(gp, resource, zone_name, args, first.request, answers,
               << >>, << >>)))

\* GceProject.insert
Insert(gp, resource, answer) ==
  Bind(InsertRequest(gp, Attach(resource)), LAMBDA built :
    IF built.exc # NoExc THEN Raised(built.exc, None, << >>)
    ELSE Bind(RunRequest(built.request, answer), LAMBDA r :
      IF r.exc # NoExc THEN r ELSE ReturnedNone(r.events)))

\* the for loop of bulk_insert and bulk_delete: one request per resource,
\* until set_defaults or json raises
BuildAll(gp, resources, method) ==
  Bind([i \in 1..Len(resources) |->
          IF method = "insert" THEN InsertRequest(gp, Attach(resources[i]))
          ELSE DeleteRequest(gp, Attach(resources[i]))],
       LAMBDA built :
         IF FirstExc(built) = NoExc
         THEN [exc |-> NoExc,
               requests |-> [i \in 1..Len(resources) |-> built[i].request]]
         ELSE [exc |-> FirstExc(built), requests |-> << >>])

\* a bulk call that raises when an item of the batch reports a failure
BulkFailsOnItem(gp, resources, method, answer) ==
  Bind(BuildAll(gp, resources, method), LAMBDA built :
    IF built.exc # NoExc THEN Raised(built.exc, None, << >>)
    ELSE Bind(RunRequest(BatchHttpRequest(built.requests), answer), LAMBDA r :
      IF r.exc # NoExc THEN r
      ELSE IF answer.failed # {}
      THEN Raised("GceError", <<"HttpError: ">>, r.events)
      ELSE ReturnedNone(r.events)))

\* bulk_insert and bulk_delete, method telling which
Bulk(gp, resources, method, answer) ==
  Bind(BuildAll(gp, resources, method), LAMBDA built :
    IF built.exc # NoExc THEN Raised(built.exc, None, << >>)
    ELSE Bind(RunRequest(BatchHttpRequest(built.requests), answer), LAMBDA r :
      IF r.exc # NoExc THEN r ELSE ReturnedNone(r.events)))

\* GceProject.bulk_insert
BulkInsert(gp, resources, answer) == Bulk(gp, resources, "insert", answer)

\* GceProject.bulk_delete
BulkDelete(gp, resources, answer) == Bulk(gp, resources, "delete", answer)

----------------------------------------------------------------------------
(* GceAppEngine *)

MAX_RESULTS == 100

\* the response of a webapp2.RequestHandler before the handler touched it
NewResponse ==
  [status |-> 200, status_message |-> <<"OK">>,
   headers |-> ("Content-Type" :> "text/html; charset=utf-8"),
   out |-> << >>]

\* json.dumps(d): the text of d
JsonDumps(d) == [json_text_of |-> d]

\* the project-client method a lister or gce_method names
MethodOf(class) ==
  CASE class = "Instance" -> "list_instances"
    [] class = "Firewall" -> "list_firewalls"
    [] class = "Image" -> "list_images"

\* run_gce_request answering a token failure like the generic failure
RunGceRequestTokenAs500(resp, method, args, call, error_message) ==
  CASE call.exc \in {"GceError", "GceTokenError"} ->
         [exc |-> NoExc, none |-> TRUE, val |-> NoneDict,
          response |-> [resp EXCEPT !.status = 500,
                          !.status_message = error_message \o call.msg],
          events |-> <<CallEvent(method, args)>> \o call.events
                     \o <<LogEvent(error_message \o call.msg)>>]
    [] call.exc = NoExc ->
         [exc |-> NoExc, none |-> call.none, val |-> call.val,
          response |-> resp,
          events |-> <<CallEvent(method, args)>> \o call.events]
    [] OTHER ->
         [exc |-> call.exc, none |-> TRUE, val |-> NoneDict,
          response |-> resp,
          events |-> <<CallEvent(method, args)>> \o call.events]

\* GceAppEngine.run_gce_request, call being what gce_method(**args) did.
\* none tells that the value returned is None.
RunGceRequest(resp, method, args, call, error_message) ==
  CASE call.exc = "GceError" ->
         [exc |-> NoExc, none |-> TRUE, val |-> NoneDict,
          response |-> [resp EXCEPT !.status = 500,
                          !.status_message = error_message \o call.msg],
          events |-> <<CallEvent(method, args)>> \o call.events
                     \o <<LogEvent(error_message \o call.msg)>>]
    [] call.exc = "GceTokenError" ->
         [exc |-> NoExc, none |-> TRUE, val |-> NoneDict,
          response |-> [resp EXCEPT !.status = 401,
                          !.status_message = <<"Unauthorized.">>],
          events |-> <<CallEvent(method, args)>> \o call.events]
    [] call.exc = NoExc ->
         [exc |-> NoExc, none |-> call.none, val |-> call.val,
          response |-> resp,
          events |-> <<CallEvent(method, args)>> \o call.events]
    [] OTHER ->
         [exc |-> call.exc, none |-> TRUE, val |-> NoneDict,
          response |-> resp,
          events |-> <<CallEvent(method, args)>> \o call.events]

HasStatus(resource) ==
  "status" \in DOMAIN resource /\ resource.status # Absent

\* resource_dict after the for loop: a later resource of the same name
\* replaces the earlier one
ResourceDict(resources) ==
  [n \in {resources[i].name : i \in 1..Len(resources)} |->
     LET last == CHOOSE i \in 1..Len(resources) :
                   /\ resources[i].name = n
                   /\ \A k \in 1..Len(resources) :
                        resources[k].name = n => k <= i
     IN [status |-> resources[last].status]]

\* the list filter with the pattern of delete_demo_resources
ListFilterDash(demo_name) ==
  [filter |-> <<"name eq ^", demo_name, "-.*">>, maxResults |-> MAX_RESULTS]

\* the arguments list_demo_resources gives the lister
ListFilter(demo_name) ==
  [filter |-> <<"name eq ^", demo_name, ".*">>, maxResults |-> MAX_RESULTS]

\* GceAppEngine.list_demo_resources, lister the list method of class and
\* listing what the lister does when called
ListDemoResources(resp, gp, demo_name, class, answers) ==
  Bind(List(gp, class, None, ListFilter(demo_name), answers), LAMBDA listing :
  Bind(RunGceRequest(resp, MethodOf(class), ListFilter(demo_name), listing,
                     <<"Error listing resources: ">>),
       LAMBDA r :
    IF r.exc # NoExc
    THEN [exc |-> r.exc, response |-> r.response, events |-> r.events]
    ELSE IF r.none
    THEN [exc |-> "TypeError", response |-> r.response, events |-> r.events]
    ELSE IF \E i \in 1..Len(r.val) : ~HasStatus(r.val[i])
    THEN [exc |-> "AttributeError", response |-> r.response,
          events |-> r.events]
    ELSE [exc |-> NoExc,
          response |->
            [r.response EXCEPT
               !.headers = ("Content-Type" :> "application/json") @@ @,
               !.out = Append(@, JsonDumps(
                         [resources |-> ResourceDict(r.val)]))],
          events |-> r.events]))

\* the arguments delete_demo_resources gives the lister
DeleteFilter(demo_name) ==
  [filter |-> <<"name eq ^", demo_name, "-.*">>, maxResults |-> MAX_RESULTS]

\* the second half of delete_demo_resources: resources is true
DeleteListed(resp, gp, resources, ev, batch_answer) ==
  Bind(BulkDelete(gp, resources, batch_answer), LAMBDA deleting :
  Bind(RunGceRequest(resp, "bulk_delete", [resources |-> resources],
                     deleting, <<"Error deleting resources: ">>),
       LAMBDA d :
    IF d.exc # NoExc
    THEN [exc |-> d.exc, response |-> d.response, events |-> ev \o d.events]
    ELSE IF ~d.none
    \* self.response: GceAppEngine has no attribute response
    THEN [exc |-> "AttributeError", response |-> d.response,
          events |-> ev \o d.events]
    ELSE [exc |-> NoExc, response |-> d.response,
          events |-> ev \o d.events]))

\* delete_demo_resources without the test of resources
DeleteDemoResourcesAlways(resp, gp, demo_name, class, answers, batch_answer) ==
  Bind(List(gp, class, None, DeleteFilter(demo_name), answers),
       LAMBDA listing :
  Bind(RunGceRequest(resp, MethodOf(class), DeleteFilter(demo_name), listing,
                     <<"Error listing resources: ">>),
       LAMBDA r :
    IF r.exc # NoExc
    THEN [exc |-> r.exc, response |-> r.response, events |-> r.events]
    ELSE IF r.none
    THEN [exc |-> NoExc, response |-> r.response, events |-> r.events]
    ELSE DeleteListed(r.response, gp, r.val, r.events, batch_answer)))

\* GceAppEngine.delete_demo_resources, lister the list method of class
DeleteDemoResources(resp, gp, demo_name, class, answers, batch_answer) ==
  Bind(List(gp, class, None, DeleteFilter(demo_name), answers),
       LAMBDA listing :
  Bind(RunGceRequest(resp, MethodOf(class), DeleteFilter(demo_name), listing,
                     <<"Error listing resources: ">>),
       LAMBDA r :
    IF r.exc # NoExc
    THEN [exc |-> r.exc, response |-> r.response, events |-> r.events]
    ELSE IF r.none \/ r.val = << >>
    THEN [exc |-> NoExc, response |-> r.response, events |-> r.events]
    ELSE DeleteListed(r.response, gp, r.val, r.events, batch_answer)))

----------------------------------------------------------------------------
(* The inputs the operations are tried on *)

MaxPages == 2   \* answers the provider has ready for one list call
MaxBulk == 2    \* resources given to one bulk call

SeqsUpTo(S, n) == UNION {[1..k -> S] : k \in 0..n}

ProjectArgs == {<<None, None>>, <<"my-project", "my-zone">>}

OptStr(v) == {None, v}
OptList(v) == {<< >>, <<v>>}

ProviderUrl(collection, name) ==
  Url(Append(GCE_URL, Settings.compute.api_version), "provider-project",
      collection, name)

CallerNetworkInterfaces ==
  <<[network |-> ProviderUrl("networks", "caller-network"),
     accessConfigs |-> <<"caller-access-config">>]>>

\* resources as a caller constructs them
Instances ==
  {Instance(name, zone_name, description, tags, image_name, GOOGLE_PROJECT,
            machine_type_name, network_interfaces, disks, metadata,
            service_accounts) :
     name \in OptStr("inst"), zone_name \in OptStr("zone-a"),
     description \in OptStr("an instance"), tags \in OptList("tag"),
     image_name \in OptStr("image-a"),
     machine_type_name \in OptStr("n1-standard-1"),
     network_interfaces \in {<< >>, CallerNetworkInterfaces},
     disks \in OptList("disk"), metadata \in OptList("meta"),
     service_accounts \in OptList("account")}

Firewalls ==
  {Firewall(name, description, network_name, source_ranges, source_tags,
            target_tags, allowed) :
     name \in OptStr("fw"), description \in OptStr("a firewall"),
     network_name \in OptStr("net-a"), source_ranges \in OptList("10.0.0.0/8"),
     source_tags \in OptList("src"), target_tags \in OptList("tgt"),
     allowed \in OptList("tcp:80")}

Images ==
  {Image(name, GOOGLE_PROJECT, description, source_type, preferred_kernel,
         raw_disk) :
     name \in OptStr("img"), description \in OptStr("an image"),
     source_type \in OptStr("RAW"), preferred_kernel \in OptStr("kernel"),
     raw_disk \in OptStr("raw-disk")}

Named ==
  {MachineType(n) : n \in OptStr("n1-standard-1")}
  \cup {Zone(n) : n \in OptStr("zone-a")}
  \cup {Network(n) : n \in OptStr("net-a")}

\* the items the provider lists, by the class listed
ItemNames == {"demo-1", "demo-2"}

Item(class, name) ==
  CASE class = "Instance" ->
         [name |-> name, zone |-> ProviderUrl("zones", "zone-b"),
          image |-> ProviderUrl("images", "image-b"),
          machineType |-> ProviderUrl("machineTypes", "n1-standard-2"),
          networkInterfaces |-> CallerNetworkInterfaces,
          status |-> IF name = "demo-1" THEN "RUNNING" ELSE "TERMINATED",
          tags |-> [items |-> <<"tag">>]]
    [] class = "Firewall" ->
         [name |-> name, network |-> ProviderUrl("networks", "default"),
          allowed |-> <<"tcp:80">>, sourceRanges |-> <<"10.0.0.0/8">>,
          targetTags |-> <<"tgt">>]
    [] class = "Image" ->
         [name |-> name, description |-> "an image", sourceType |-> "RAW"]

Classes == {"Instance", "Firewall", "Image"}

\* a resource as a list call returns it
Listed(class, name) == FromJson(Fresh(class), Item(class, name)).val

ListedResources == {Listed(class, name) : class \in Classes, name \in ItemNames}

\* the names of the items of one page: no name twice on a page
ItemLists ==
  {names \in SeqsUpTo(ItemNames, Cardinality(ItemNames)) :
     \A i, k \in 1..Len(names) : names[i] = names[k] => i = k}

\* one answer to a list request: a page, with or without items and a token
PageAnswers(class) ==
  {Answer(Entry(names # << >>, "items",
                [i \in 1..Len(names) |-> Item(class, names[i])])
          @@ Entry(more, "nextPageToken", "next-page")
          @@ ("kind" :> "compute#list")) :
     names \in ItemLists, more \in BOOLEAN}

ErrorAnswers ==
  {HttpError(503, "Service Unavailable"), HttpLib2Error,
   AccessTokenRefreshError}

IsLast(answer) ==
  answer.kind # "ok" \/ "nextPageToken" \notin DOMAIN answer.result

\* the provider's answers to a list call: the last one ends the listing
ListAnswers(class) ==
  {a \in SeqsUpTo(PageAnswers(class) \cup ErrorAnswers, MaxPages) :
     a # << >> /\ IsLast(a[Len(a)])}

SingleAnswers ==
  {Answer([kind |-> "compute#operation"]), HttpError(404, "Not Found")}
  \cup ErrorAnswers

BatchAnswers(n) == {BatchAnswer(failed) : failed \in SUBSET (1..n)}
                   \cup ErrorAnswers

\* the resources bulk calls are tried on: constructed ones and listed ones
BulkResources ==
  {Instance("inst", "zone-a", None, << >>, "image-a", GOOGLE_PROJECT,
            "n1-standard-1", CallerNetworkInterfaces, << >>, << >>, << >>),
   Instance("inst-b", None, None, << >>, None, GOOGLE_PROJECT, None, << >>,
            << >>, << >>, << >>),
   Firewall("fw", None, "net-a", << >>, << >>, << >>, << >>),
   Firewall("fw-b", None, None, << >>, << >>, << >>, << >>),
   Image("img", GOOGLE_PROJECT, None, "RAW", None, "raw-disk"),
   Network("net-a"), Zone(None)}
  \cup ListedResources

\* the resources insert is tried on
InsertResources == BulkResources \cup Instances \cup Firewalls

----------------------------------------------------------------------------
(* The state machine: one action per operation *)

Init ==
  /\ \E a \in ProjectArgs : gce_project = GceProject(a[1], a[2])
  /\ pc = "idle"
  /\ op = "none"
  /\ input = << >>
  /\ ret = << >>
  /\ events = << >>
  /\ response = NewResponse

Finish(name, in, out, ev, resp) ==
  /\ pc' = "done"
  /\ op' = name
  /\ input' = in
  /\ ret' = out
  /\ events' = ev
  /\ response' = resp
  /\ UNCHANGED gce_project

\* resource.set_defaults(), the caller having attached the project or not
DoSetDefaults ==
  /\ pc = "idle"
  /\ \E r \in Instances \cup Firewalls \cup Images \cup Named
                \cup ListedResources,
        attached \in BOOLEAN :
       \E resource \in {[r EXCEPT !.has_gce_project = attached]} :
         Finish("set_defaults", [resource |-> resource],
                SetDefaults(gce_project, resource), << >>, response)

\* what from_json makes of a fresh object given the json of resource
RoundTrip(gp, resource) ==
  Bind(Json(gp, resource), LAMBDA j :
    IF j.exc # NoExc THEN [exc |-> j.exc, json |-> NoneDict, val |-> None]
    ELSE Bind(FromJson(Fresh(resource.class), j.val), LAMBDA back :
      [exc |-> back.exc, json |-> j.val, val |-> back.val]))

\* resource_class().from_json(resource.json) of a resource made ready for
\* insert: attached and defaulted
DoRoundTrip ==
  /\ pc = "idle"
  /\ \E r \in Instances \cup Firewalls \cup Images :
       \E resource \in {SetDefaults(gce_project, Attach(r)).val} :
         Finish("round_trip", [resource |-> resource],
                RoundTrip(gce_project, resource), << >>, response)

\* gce_project._run_request(request)
DoRunRequest ==
  /\ pc = "idle"
  /\ \E class \in Classes, answer \in SingleAnswers :
       \E request \in {ListRequest(gce_project, Attach(Fresh(class)), None,
                                   EmptyDict).request} :
         \E r \in {RunRequest(request, answer)} :
           Finish("_run_request", [request |-> request, answer |-> answer],
                  r, r.events, response)

\* gce_project.list_instances(), list_firewalls(), list_images()
DoList ==
  /\ pc = "idle"
  /\ \E class \in Classes : \E answers \in ListAnswers(class) :
       \E zone_name \in IF class = "Instance" THEN {None, "zone-c"} ELSE {None} :
         \E r \in {List(gce_project, class, zone_name, EmptyDict, answers)} :
           Finish("list", [class |-> class, zone_name |-> zone_name,
                           answers |-> answers],
                  r, r.events, response)

\* gce_project.insert(resource)
DoInsert ==
  /\ pc = "idle"
  /\ \E resource \in InsertResources, answer \in SingleAnswers :
       \E r \in {Insert(gce_project, resource, answer)} :
         Finish("insert", [resource |-> resource, answer |-> answer],
                r, r.events, response)

\* gce_project.bulk_insert(resources)
DoBulkInsert ==
  /\ pc = "idle"
  /\ \E resources \in SeqsUpTo(BulkResources, MaxBulk) :
       \E answer \in BatchAnswers(Len(resources)) :
         \E r \in {BulkInsert(gce_project, resources, answer)} :
           Finish("bulk_insert", [resources |-> resources, answer |-> answer],
                  r, r.events, response)

\* gce_project.bulk_delete(resources)
DoBulkDelete ==
  /\ pc = "idle"
  /\ \E resources \in SeqsUpTo(BulkResources, MaxBulk) :
       \E answer \in BatchAnswers(Len(resources)) :
         \E r \in {BulkDelete(gce_project, resources, answer)} :
           Finish("bulk_delete", [resources |-> resources, answer |-> answer],
                  r, r.events, response)

DemoNames == {"demo"}

RequestArgs == {EmptyDict, [filter |-> <<"name eq ", "web">>]}

\* GceAppEngine().run_gce_request(handler, lister, error_message, **args),
\* lister being gce_project.list_instances, list_firewalls or list_images
DoRunGceRequest ==
  /\ pc = "idle"
  /\ \E class \in Classes, args \in RequestArgs :
       \E answers \in ListAnswers(class) :
         \E call \in {List(gce_project, class, None, args, answers)} :
           \E r \in {RunGceRequest(response, MethodOf(class), args, call,
                                   <<"Error listing: ">>)} :
             Finish("run_gce_request",
                    [method |-> MethodOf(class), args |-> args,
                     answers |-> answers, call |-> call,
                     error_message |-> <<"Error listing: ">>],
                    r, r.events, r.response)

\* GceAppEngine().list_demo_resources(handler, gce_project, demo_name, lister)
DoListDemoResources ==
  /\ pc = "idle"
  /\ \E class \in Classes, demo_name \in DemoNames :
       \E answers \in ListAnswers(class) :
         \E r \in {ListDemoResources(response, gce_project, demo_name, class,
                                     answers)} :
           Finish("list_demo_resources",
                  [class |-> class, demo_name |-> demo_name,
                   answers |-> answers],
                  r, r.events, r.response)

DeleteAnswers == {BatchAnswer({}), BatchAnswer({1})} \cup ErrorAnswers

\* GceAppEngine().delete_demo_resources(handler, gce_project, demo_name,
\* lister)
DoDeleteDemoResources ==
  /\ pc = "idle"
  /\ \E class \in Classes, demo_name \in DemoNames :
       \E answers \in ListAnswers(class), batch_answer \in DeleteAnswers :
         \E r \in {DeleteDemoResources(response, gce_project, demo_name,
                                       class, answers, batch_answer)} :
           Finish("delete_demo_resources",
                  [class |-> class, demo_name |-> demo_name,
                   answers |-> answers, batch_answer |-> batch_answer],
                  r, r.events, r.response)

\* the next request arrives: a new handler with a new response
NewRequest ==
  /\ pc = "done"
  /\ pc' = "idle"
  /\ op' = "none"
  /\ input' = << >>
  /\ ret' = << >>
  /\ events' = << >>
  /\ response' = NewResponse
  /\ UNCHANGED gce_project

Next ==
  \/ DoSetDefaults
  \/ DoRoundTrip
  \/ DoRunRequest
  \/ DoList
  \/ DoInsert
  \/ DoBulkInsert
  \/ DoBulkDelete
  \/ DoRunGceRequest
  \/ DoListDemoResources
  \/ DoDeleteDemoResources
  \/ NewRequest

Spec == Init /\ [][Next]_vars

----------------------------------------------------------------------------
(* What the properties below speak of *)

Executes == SelectSeq(events, LAMBDA e : e.type = "execute")
Callbacks == SelectSeq(events, LAMBDA e : e.type = "callback")
Logs == SelectSeq(events, LAMBDA e : e.type = "logging.error")
Calls == SelectSeq(events, LAMBDA e : e.type = "call")

\* the first answer that ends a listing: an error, or a page without a token
FirstEnd(answers) ==
  CHOOSE i \in 1..Len(answers) :
    IsLast(answers[i]) /\ \A k \in 1..(i - 1) : ~IsLast(answers[k])

\* the provider answers the list call with pages only
PagesOnly(answers) == answers[FirstEnd(answers)].kind = "ok"

PageItems(answer) ==
  IF "items" \in DOMAIN answer.result THEN answer.result.items ELSE << >>

RECURSIVE ItemsUpTo(_, _)
\* the items of the pages 1..n, in page order and in-page order
ItemsUpTo(answers, n) ==
  IF n = 0 THEN << >>
  ELSE ItemsUpTo(answers, n - 1) \o PageItems(answers[n])

\* the items of the whole listing
ListedItems(answers) == ItemsUpTo(answers, FirstEnd(answers))

\* the error _run_request raises for a failed execute
MappedExc(answer) ==
  IF answer.kind = "AccessTokenRefreshError" THEN "GceTokenError"
  ELSE "GceError"
MappedMsg(answer) ==
  CASE answer.kind = "HttpError" ->
         <<"HttpError: ", answer.status, answer.reason>>
    [] answer.kind = "HttpLib2Error" -> <<"Transport Error occurred">>
    [] answer.kind = "AccessTokenRefreshError" ->
         <<"Access Token refresh error">>

----------------------------------------------------------------------------
(* C1: when the provider answers a list call with pages only, _list returns *)
(* one resource of the listed class per item, in page order and in-page     *)
(* order, and executes one request per page up to and including the first   *)
(* page without a next-page token, and none after it.                       *)
C1_ListConcatenatesPages ==
  (pc = "done" /\ op = "list" /\ PagesOnly(input.answers)) =>
    LET n == FirstEnd(input.answers)
        items == ListedItems(input.answers)
    IN /\ ret.exc = NoExc
       /\ ~ret.none
       /\ Len(ret.val) = Len(items)
       /\ \A i \in 1..Len(items) :
            /\ ret.val[i].class = input.class
            /\ ret.val[i].name = items[i].name
            /\ ret.val[i] = FromJson(Fresh(input.class), items[i]).val
       /\ Len(Executes) = n
       /\ \A i \in 1..n :
            /\ Executes[i].request.method = "list"
            /\ ("pageToken" \in DOMAIN Executes[i].request.params) <=> (i > 1)

\* a listing of two pages with items on both, and distinct items in a row
C1_Witness ==
  /\ pc = "done" /\ op = "list" /\ PagesOnly(input.answers)
  /\ FirstEnd(input.answers) = 2
  /\ Len(PageItems(input.answers[1])) >= 1
  /\ Len(PageItems(input.answers[2])) >= 1
  /\ Len(ret.val) >= 2
  /\ ret.val[1].name # ret.val[Len(ret.val)].name

(* C2: _run_request re-raises an HTTP error as GceError with the status and *)
(* the reason in its message, a transport error as GceError with a fixed    *)
(* text, an access-token refresh failure as GceTokenError, and returns the  *)
(* provider's result unchanged, raising nothing, when execute succeeds; the *)
(* request is executed once.                                                *)
C2_RunRequestMapsErrors ==
  (pc = "done" /\ op = "_run_request") =>
    /\ Len(Executes) = 1
    /\ Executes[1].request = input.request
    /\ input.answer.kind = "ok" =>
         ret.exc = NoExc /\ ret.val = input.answer.result
    /\ input.answer.kind = "HttpError" =>
         /\ ret.exc = "GceError"
         /\ ret.msg = <<"HttpError: ", input.answer.status,
                        input.answer.reason>>
    /\ input.answer.kind = "HttpLib2Error" =>
         ret.exc = "GceError" /\ ret.msg = <<"Transport Error occurred">>
    /\ input.answer.kind = "AccessTokenRefreshError" =>
         ret.exc = "GceTokenError"
    /\ ret.exc \in {NoExc, "GceError", "GceTokenError"}

C2_Witness ==
  /\ pc = "done" /\ op = "_run_request"
  /\ input.answer.kind = "HttpError"
  /\ ret.exc = "GceError"
  /\ ret.msg = <<"HttpError: ", 404, "Not Found">>

(* C3: a bulk call with N resources executes once, the batch, and the      *)
(* batch holds one insert (or delete) sub-request per resource, in the      *)
(* order given.                                                             *)
C3_BulkIsOneBatch ==
  (pc = "done" /\ op \in {"bulk_insert", "bulk_delete"}) =>
    /\ Len(Executes) = 1
    /\ Executes[1].request.method = "batch"
    /\ Len(Executes[1].request.requests) = Len(input.resources)
    /\ \A i \in 1..Len(input.resources) :
         LET sub == Executes[1].request.requests[i]
             r == input.resources[i]
         IN /\ sub.method = (IF op = "bulk_insert" THEN "insert" ELSE "delete")
            /\ sub.collection = ServiceResource(Attach(r)).val
            /\ op = "bulk_delete" =>
                 \E k \in {"instance", "firewall", "image"} :
                   k \in DOMAIN sub.params /\ sub.params[k] = r.name

(* C4: in a bulk call whose batch is executed, an item failure reported to  *)
(* the callback is only logged, every item's callback still runs and the    *)
(* call returns; a failure of the batch execute itself raises GceError or   *)
(* GceTokenError as _run_request maps it.                                   *)
C4_BatchItemFailureIsLogged ==
  (pc = "done" /\ op \in {"bulk_insert", "bulk_delete"} /\ Len(Executes) >= 1)
  =>
    /\ input.answer.kind = "ok" =>
         /\ ret.exc = NoExc
         /\ Len(Callbacks) = Len(input.resources)
         /\ \A i \in 1..Len(Callbacks) : Callbacks[i].request_id = i
         /\ Len(Logs) = Cardinality(input.answer.failed)
    /\ input.answer.kind # "ok" =>
         /\ ret.exc = MappedExc(input.answer)
         /\ ret.msg = MappedMsg(input.answer)
         /\ Callbacks = << >>

\* the first of two deletes fails, the second callback still runs
C4_Witness ==
  /\ pc = "done" /\ op = "bulk_delete"
  /\ Len(input.resources) = 2
  /\ input.answer.kind = "ok" /\ input.answer.failed = {1}
  /\ ret.exc = NoExc
  /\ Len(Callbacks) = 2
  /\ Len(Logs) = 1

----------------------------------------------------------------------------
(* The attributes of a resource, by the kind of value they hold *)

StrFields(class) ==
  CASE class = "Instance" -> {"name", "description"}
    [] class = "Firewall" -> {"name", "description"}
    [] class = "Image" -> {"name", "project", "description", "source_type",
                           "preferred_kernel", "raw_disk"}
    [] OTHER -> {"name"}

ListFields(class) ==
  CASE class = "Instance" -> {"tags", "network_interfaces", "disks",
                              "metadata", "service_accounts"}
    [] class = "Firewall" -> {"source_ranges", "source_tags", "target_tags",
                              "allowed"}
    [] OTHER -> {}

\* the attributes that hold a Zone, an Image, a MachineType or a Network
ObjectFields(class) ==
  CASE class = "Instance" -> {"zone", "image", "machine_type"}
    [] class = "Firewall" -> {"network"}
    [] OTHER -> {}

\* the value the settings give an attribute left unset
Configured(gp, class, f) ==
  CASE class = "Instance" /\ f = "zone" -> gp.settings.compute.zone
    [] class = "Instance" /\ f = "image" -> gp.settings.compute.image
    [] class = "Instance" /\ f = "machine_type" ->
         gp.settings.compute.machine_type
    [] class = "Instance" /\ f = "network_interfaces" ->
         <<[network |-> Url(gp.gce_url, gp.project_id, "networks",
                            gp.settings.compute.network),
            accessConfigs |-> gp.settings.compute.access_configs]>>
    [] class = "Firewall" /\ f = "network" -> gp.settings.compute.network
    [] class = "Firewall" /\ f = "source_ranges" ->
         gp.settings.compute.firewall.sourceRanges
    [] class = "Firewall" /\ f = "allowed" ->
         gp.settings.compute.firewall.allowed
    [] class = "Image" /\ f = "name" -> gp.settings.compute.image
    [] class = "MachineType" /\ f = "name" -> gp.settings.compute.machine_type
    [] class = "Zone" /\ f = "name" -> gp.settings.compute.zone
    [] class = "Network" /\ f = "name" -> gp.settings.compute.network
    [] OTHER -> "<no default>"

(* C5: set_defaults leaves every attribute the caller set as it was, and an *)
(* attribute it changes was unset and gets the value of the settings.       *)
C5_SetDefaultsKeepsWhatIsSet ==
  (pc = "done" /\ op = "set_defaults") =>
    LET before == input.resource
        after == ret.val
        class == before.class
    IN /\ after.class = class
       /\ \A f \in StrFields(class) :
            /\ ~NotStr(before[f]) => after[f] = before[f]
            /\ after[f] # before[f] => after[f] = Configured(gce_project, class, f)
       /\ \A f \in ListFields(class) :
            /\ ~NotList(before[f]) => after[f] = before[f]
            /\ after[f] # before[f] => after[f] = Configured(gce_project, class, f)
       /\ \A f \in ObjectFields(class) :
            IF before[f].class = "str" THEN after[f] = before[f]
            ELSE /\ ~NotStr(before[f].name) => after[f].name = before[f].name
                 /\ after[f].name # before[f].name =>
                      after[f].name = Configured(gce_project, class, f)

\* an instance given a zone and network interfaces but no image
C5_Witness ==
  /\ pc = "done" /\ op = "set_defaults" /\ ret.exc = NoExc
  /\ input.resource.class = "Instance"
  /\ input.resource.zone.name = "zone-a"
  /\ input.resource.network_interfaces = CallerNetworkInterfaces
  /\ input.resource.image.name = None
  /\ ret.val.zone.name = "zone-a"
  /\ ret.val.network_interfaces = CallerNetworkInterfaces
  /\ ret.val.image.name = gce_project.settings.compute.image

\* the name an attribute holding an object, or a URL string, refers to
BareName(x) == IF x.class = "str" THEN LastSegment(x.value) ELSE x.name

(* C6: from_json of a fresh object, given the json of an Instance, a        *)
(* Firewall or an Image, succeeds and reproduces every attribute that was   *)
(* non-empty, the zone, image, machine type and network by bare name.       *)
C6_FromJsonOfJsonRoundTrips ==
  (pc = "done" /\ op = "round_trip") =>
    /\ ret.exc = NoExc
    /\ LET before == input.resource
           after == ret.val
           class == before.class
       IN /\ \A f \in StrFields(class) \ {"project"} :
               ~NotStr(before[f]) => after[f] = before[f]
          /\ \A f \in ListFields(class) :
               ~NotList(before[f]) => after[f] = before[f]
          /\ \A f \in ObjectFields(class) :
               ~NotStr(before[f].name) => BareName(after[f]) = before[f].name

----------------------------------------------------------------------------
\* every item the listing returns carries a status
AllHaveStatus(answers) ==
  \A i \in 1..Len(ListedItems(answers)) :
    "status" \in DOMAIN ListedItems(answers)[i]

\* name -> status of the items, the last item of a name deciding
StatusByName(items) ==
  [n \in {items[i].name : i \in 1..Len(items)} |->
     [status |-> items[CHOOSE i \in 1..Len(items) :
                         /\ items[i].name = n
                         /\ \A k \in (i + 1)..Len(items) : items[k].name # n
                      ].status]]

C8_DeleteDemoOfNothingDoesNothing ==
  (/\ pc = "done" /\ op = "delete_demo_resources"
   /\ PagesOnly(input.answers) /\ ListedItems(input.answers) = << >>)
  =>
    /\ ret.exc = NoExc
    /\ \A i \in 1..Len(Calls) : Calls[i].method # "bulk_delete"
    /\ \A i \in 1..Len(Executes) : Executes[i].request.method = "list"
    /\ response = NewResponse

\* a listing of two pages without an item
C8_Witness ==
  /\ pc = "done" /\ op = "delete_demo_resources" /\ ret.exc = NoExc
  /\ PagesOnly(input.answers)
  /\ FirstEnd(input.answers) = 2
  /\ ListedItems(input.answers) = << >>
  /\ Len(Executes) = 2

(* C9: when the listing returns at least one resource and the bulk delete   *)
(* succeeds, delete_demo_resources calls bulk_delete once, after the        *)
(* listing, with exactly the listed resources, and then writes a plain-text *)
(* confirmation to the response.                                            *)
C9_DeleteDemoConfirms ==
  (/\ pc = "done" /\ op = "delete_demo_resources"
   /\ PagesOnly(input.answers) /\ ListedItems(input.answers) # << >>
   /\ input.batch_answer.kind = "ok" /\ ret.exc = NoExc)
  =>
    /\ Len(Calls) = 2
    /\ Calls[2].method = "bulk_delete"
    /\ Len(Calls[2].args.resources) = Len(ListedItems(input.answers))
    /\ \A i \in 1..Len(ListedItems(input.answers)) :
         Calls[2].args.resources[i].name = ListedItems(input.answers)[i].name
    /\ Len(Executes) = FirstEnd(input.answers) + 1
    /\ Executes[Len(Executes)].request.method = "batch"
    /\ response.headers["Content-Type"] = "text/plain"
    /\ response.out = <<"stopping cluster">>

(* C10: run_gce_request calls the method once with the arguments given; on  *)
(* GceError it sets status 500 with the error message, on GceTokenError     *)
(* status 401 'Unauthorized.', returning None and raising nothing in both   *)
(* cases; when the method returns, it returns the method's result and       *)
(* leaves the response alone.                                               *)
C10_RunGceRequestTranslatesErrors ==
  (pc = "done" /\ op = "run_gce_request") =>
    /\ Len(Calls) = 1
    /\ events[1] = CallEvent(input.method, input.args)
    /\ \A i \in 1..Len(Executes) : \A k \in DOMAIN input.args :
         Executes[i].request.params[k] = input.args[k]
    /\ input.call.exc = "GceError" =>
         /\ ret.exc = NoExc /\ ret.none
         /\ response = [NewResponse EXCEPT
                          !.status = 500,
                          !.status_message =
                             input.error_message \o input.call.msg]
    /\ input.call.exc = "GceTokenError" =>
         /\ ret.exc = NoExc /\ ret.none
         /\ response = [NewResponse EXCEPT
                          !.status = 401,
                          !.status_message = <<"Unauthorized.">>]
    /\ input.call.exc = NoExc =>
         /\ ret.exc = NoExc /\ ~ret.none
         /\ ret.val = input.call.val
         /\ response = NewResponse

\* the lister fails with an HTTP error on its second page
C10_Witness ==
  /\ pc = "done" /\ op = "run_gce_request"
  /\ input.call.exc = "GceError"
  /\ Len(Executes) = 2
  /\ ret.none
  /\ response.status = 500
  /\ response.status_message =
       <<"Error listing: ", "HttpError: ", 503, "Service Unavailable">>

----------------------------------------------------------------------------
\* the answer that makes the listing fail, when it fails
FailingAnswer(answers) == answers[FirstEnd(answers)]

(* C11: when the listing inside list_demo_resources or                      *)
(* delete_demo_resources fails with GceError or GceTokenError, the          *)
(* operation ends without an exception, the response status is 500 or 401   *)
(* respectively, no body is written and no delete is attempted.             *)
C11_DemoHelperEndsPropagation ==
  (/\ pc = "done"
   /\ op \in {"list_demo_resources", "delete_demo_resources"}
   /\ ~PagesOnly(input.answers))
  =>
    /\ ret.exc = NoExc
    /\ response.status =
         (IF MappedExc(FailingAnswer(input.answers)) = "GceTokenError"
          THEN 401 ELSE 500)
    /\ response.out = << >>
    /\ \A i \in 1..Len(Calls) : Calls[i].method # "bulk_delete"
    /\ \A i \in 1..Len(Executes) : Executes[i].request.method = "list"

----------------------------------------------------------------------------
\* the name an attribute gets: the caller's, or the configured one
NameOrDefault(name, configured) == IF NotStr(name) THEN configured ELSE name

\* a URL that names something: no unset name was formatted into it
Resolved(url) == url.name # Fmt(None) /\ url.name # ""

(* C12: insert of an Instance executes exactly one request, an insert on    *)
(* instances, built after defaulting: the body carries the image and the    *)
(* machine type as URLs of the caller's name or else the configured name,   *)
(* the caller's network interfaces or else one on the configured network,   *)
(* no URL holding an unset name, and the zone parameter is the instance's   *)
(* zone name after defaulting.                                              *)
C12_InstanceInsertIsDefaultedFirst ==
  (pc = "done" /\ op = "insert" /\ input.resource.class = "Instance") =>
    /\ Len(Executes) = 1
    /\ LET r == input.resource
           compute == gce_project.settings.compute
           request == Executes[1].request
           body == request.params.body
       IN /\ request.method = "insert"
          /\ request.collection = "instances"
          /\ request.params.project = gce_project.project_id
          /\ request.params.zone = NameOrDefault(r.zone.name, compute.zone)
          /\ ~NotStr(request.params.zone)
          /\ body.name = r.name
          /\ body.image =
               Url(gce_project.gce_url, r.image.project, "images",
                   NameOrDefault(r.image.name, compute.image))
          /\ body.machineType =
               Url(gce_project.gce_url, gce_project.project_id, "machineTypes",
                   NameOrDefault(r.machine_type.name, compute.machine_type))
          /\ body.networkInterfaces =
               (IF NotList(r.network_interfaces)
                THEN <<[network |->
                          Url(gce_project.gce_url, gce_project.project_id,
                              "networks", compute.network),
                        accessConfigs |-> compute.access_configs]>>
                ELSE r.network_interfaces)
          /\ Resolved(body.image) /\ Resolved(body.machineType)
          /\ body.networkInterfaces # << >>
          /\ \A i \in 1..Len(body.networkInterfaces) :
               Resolved(body.networkInterfaces[i].network)
    /\ input.answer.kind = "ok" => ret.exc = NoExc
    /\ input.answer.kind # "ok" => ret.exc = MappedExc(input.answer)

\* an instance given a name only, inserted with everything else configured
C12_Witness ==
  /\ pc = "done" /\ op = "insert" /\ ret.exc = NoExc
  /\ input.resource.class = "Instance"
  /\ input.resource.zone.name = None
  /\ input.resource.image.name = None
  /\ input.resource.machine_type.name = None
  /\ input.resource.network_interfaces = << >>
  /\ Len(Executes) = 1
  /\ Executes[1].request.params.zone = gce_project.settings.compute.zone
  /\ Executes[1].request.params.body.image.name =
       gce_project.settings.compute.image

(* C13: insert of a Firewall a caller constructed, with or without a        *)
(* network name, executes one insert on firewalls whose body carries the    *)
(* URL of the caller's network, or else of the configured network, in the   *)
(* project, no field of the URL left unset.                                 *)
C13_FirewallInsertDefaultsNetwork ==
  (/\ pc = "done" /\ op = "insert"
   /\ input.resource.class = "Firewall"
   /\ input.resource.network.class = "Network")
  =>
    /\ ret.exc \in {NoExc, "GceError", "GceTokenError"}
    /\ Len(Executes) = 1
    /\ LET request == Executes[1].request
           body == request.params.body
       IN /\ request.method = "insert"
          /\ request.collection = "firewalls"
          /\ request.params.project = gce_project.project_id
          /\ body.network =
               Url(gce_project.gce_url, gce_project.project_id, "networks",
                   NameOrDefault(input.resource.network.name,
                                 gce_project.settings.compute.network))
          /\ Resolved(body.network)

----------------------------------------------------------------------------
(* C14: a list call executes one request per answer up to and including the *)
(* first that ends the listing, the first without a page token and each     *)
(* later one built from the result of the page before it; insert and the    *)
(* bulk calls execute at most one request. When an execute fails the call   *)
(* raises the mapped error, returns no resources, and the failed execute is *)
(* the last one.                                                            *)
C14_NoRetrySequentialPages ==
  /\ (pc = "done" /\ op = "list") =>
       LET n == FirstEnd(input.answers)
           last == FailingAnswer(input.answers)
       IN /\ Len(Executes) = n
          /\ "pageToken" \notin DOMAIN Executes[1].request.params
          /\ \A i \in 2..n :
               Executes[i].request =
                 ListNext(Executes[1].request, input.answers[i - 1].result)
          /\ last.kind # "ok" =>
               /\ ret.exc = MappedExc(last)
               /\ ret.msg = MappedMsg(last)
               /\ ret.none
               /\ events[Len(events)].type = "logging.error"
               /\ events[Len(events) - 1].type = "execute"
               /\ Len(Logs) = 1
  /\ (pc = "done" /\ op \in {"insert", "bulk_insert", "bulk_delete"}) =>
       /\ Len(Executes) <= 1
       /\ (Len(Executes) = 1 /\ input.answer.kind # "ok") =>
            /\ ret.exc = MappedExc(input.answer)
            /\ ret.msg = MappedMsg(input.answer)
            /\ ret.none
            /\ events[Len(events)].type = "logging.error"
            /\ events[Len(events) - 1].type = "execute"

\* a first page with items and a token, then a failing second page
C14_Witness ==
  /\ pc = "done" /\ op = "list"
  /\ Len(input.answers) = 2
  /\ Len(PageItems(input.answers[1])) >= 1
  /\ input.answers[2].kind = "HttpError"
  /\ Len(Executes) = 2
  /\ "pageToken" \in DOMAIN Executes[2].request.params
  /\ ret.exc = "GceError"
  /\ ret.none

----------------------------------------------------------------------------
\* the key under which a delete call of the kind takes the resource's name
NameKey(class) ==
  CASE class = "Instance" -> "instance"
    [] class = "Firewall" -> "firewall"
    [] class = "Image" -> "image"
    [] class = "MachineType" -> "machineType"
    [] class = "Zone" -> "zone"
    [] class = "Network" -> "network"

(* C15: every delete sub-request a bulk_delete builds carries the project   *)
(* id, the name of its resource under the key of the resource's kind, and a *)
(* zone parameter, the resource's zone name after defaulting, exactly when  *)
(* the kind is zonal.                                                       *)
C15_DeleteIsKeyedByName ==
  (pc = "done" /\ op = "bulk_delete" /\ Len(Executes) = 1) =>
    \A i \in 1..Len(input.resources) :
      LET r == input.resources[i]
          params == Executes[1].request.requests[i].params
          zonal == r.class = "Instance"
      IN /\ Executes[1].request.requests[i].method = "delete"
         /\ params.project = gce_project.project_id
         /\ NameKey(r.class) \in DOMAIN params
         /\ params[NameKey(r.class)] =
              NameOrDefault(r.name, Configured(gce_project, r.class, "name"))
         /\ zonal => (/\ "zone" \in DOMAIN params
                      /\ params.zone =
                           NameOrDefault(r.zone.name,
                                         gce_project.settings.compute.zone))
         /\ ~zonal => DOMAIN params = {"project", NameKey(r.class)}

(* C16: when the listing of delete_demo_resources returns instances,        *)
(* firewalls or images, the bulk delete of the listed resources raises      *)
(* nothing while defaulting and the batch is executed, holding one delete   *)
(* per listed item, in order, of the item's name and, for an instance, of   *)
(* the zone name at the end of the item's zone URL.                         *)
C16_ListThenDeleteComposes ==
  (/\ pc = "done" /\ op = "delete_demo_resources"
   /\ PagesOnly(input.answers) /\ ListedItems(input.answers) # << >>)
  =>
    LET items == ListedItems(input.answers)
        n == FirstEnd(input.answers)
    IN /\ ret.exc = NoExc
       /\ Len(Executes) = n + 1
       /\ Executes[n + 1].request.method = "batch"
       /\ Len(Executes[n + 1].request.requests) = Len(items)
       /\ \A i \in 1..Len(items) :
            LET sub == Executes[n + 1].request.requests[i]
            IN /\ sub.method = "delete"
               /\ sub.params[NameKey(input.class)] = items[i].name
               /\ input.class = "Instance" =>
                    sub.params.zone = LastSegment(items[i].zone)

====
